---- MODULE Spec2Model ----
(***************************************************************************)
(* A model of the RP2040 PIO driver (package pio, pio.go): the instruction *)
(* memory allocator of a PIO block, the state machine configuration words  *)
(* and the state machine controller.                                       *)
(*                                                                         *)
(* A 32-bit register or word is the set of its set bit positions (a subset *)
(* of 0..31), so that and/or/and-not are intersection/union/difference and *)
(* a shift drops the bits that leave the word.  16-bit instruction words   *)
(* and 8-bit arguments are integers reduced modulo their width.            *)
(***************************************************************************)
EXTENDS Integers, Sequences, FiniteSets, TLC

VARIABLES
    usedSpaceMask,  \* PIO.usedSpaceMask: bitmask of used instruction space
    INSTR_MEM,      \* slot (uint8) -> the word last written at INSTR_MEM0 + 4*slot
    loaded,         \* history: the placements that succeeded, in order
    ret,            \* history: the last allocator call, its arguments and result
    calls,          \* number of allocator calls made so far
    cfg,            \* a StateMachineConfig value being built
    cfgRet,         \* history: the last builder call, its arguments, cfg before
    sets,           \* number of builder calls made so far
    CTRL,           \* Device.CTRL as it reads back: the SM_ENABLE bits
    FDEBUG,         \* Device.FDEBUG: the latched FIFO error flags
    SM,             \* index -> the register block SMx_CLKDIV .. SMx_PINCTRL
    smPc,           \* the controller call in progress and its next step
    smLog,          \* history: the register writes of the current call
    smRet,          \* history: the last step taken, and CTRL before it
    smCalls,        \* number of controller calls made so far
    irqPc,          \* main context: the CTRL update in progress, the value read
    irqRet,         \* history: the last CTRL update of the main context
    irqCalls        \* number of CTRL updates the main context has started

allocVars == <<usedSpaceMask, INSTR_MEM, loaded, ret, calls>>

cfgVars == <<cfg, cfgRet, sets>>

smVars == <<CTRL, FDEBUG, SM, smPc, smLog, smRet, smCalls>>

irqVars == <<irqPc, irqRet, irqCalls>>

vars == <<usedSpaceMask, INSTR_MEM, loaded, ret, calls, cfg, cfgRet, sets,
          CTRL, FDEBUG, SM, smPc, smLog, smRet, smCalls,
          irqPc, irqRet, irqCalls>>

(***************************************************************************)
(* Bounds of the model.                                                    *)
(***************************************************************************)
\* Number of allocator calls (AddProgram, AddProgramAtOffset) in one run.
MaxLoads == 2

\* Number of configuration builder calls in one run.
MaxSets == 3

\* Number of state machine controller calls in one run.
MaxCalls == 2

(***************************************************************************)
(* Fixed-width arithmetic.                                                 *)
(***************************************************************************)
\* Number of instruction slots of a PIO block = number of bits of the mask.
WORD_BITS == 32

AllBits == 0 .. (WORD_BITS - 1)

\* uint32 shift left: bits shifted past bit 31 are lost.
Shl(s, k) == {b + k : b \in s} \cap AllBits

Min(s) == CHOOSE m \in s : \A x \in s : m <= x

Max(s) == CHOOSE m \in s : \A x \in s : m >= x

\* uint32 x - 1, wrapping: 0 - 1 is 0xFFFFFFFF.
Dec32(s) == IF s = {} THEN AllBits ELSE (s \ {Min(s)}) \cup (0 .. (Min(s) - 1))

\* Go's int8(x) of an unsigned or wrapped value: the low 8 bits, signed.
ToInt8(n) == IF n % 256 >= 128 THEN (n % 256) - 256 ELSE n % 256

\* Go's uint8(x): the low 8 bits.
ToUint8(n) == n % 256

\* Go's uint16(x): the low 16 bits.
ToUint16(n) == n % 65536

\* The set bits of a value 0 <= n < 2^31, as converted by uint32(n).
BitsOf(n) == {i \in 0 .. 30 : (n \div (2 ^ i)) % 2 = 1}

\* a & b on unsigned values, bit by bit from the low end.
RECURSIVE And16(_, _)
And16(a, b) ==
    IF a = 0 \/ b = 0 THEN 0
    ELSE ((a % 2) * (b % 2)) + 2 * And16(a \div 2, b \div 2)

(***************************************************************************)
(* Instruction encoding (the opcode classification the allocator uses).    *)
(***************************************************************************)
\* Mask of the opcode class: the top three bits of an instruction word.
INSTR_BITS_Msk == 57344

\* Opcode class of a jump instruction.
INSTR_BITS_JMP == 0

\* Mask of the 5-bit absolute-address operand of a jump.
JMP_ADDR_Msk == 31

IsJmp(instr) == INSTR_BITS_JMP = And16(instr, INSTR_BITS_Msk)

JmpAddr(instr) == And16(instr, JMP_ADDR_Msk)

(***************************************************************************)
(* Programs offered to the allocator.                                      *)
(***************************************************************************)
\* The generated program of the ST7789 example: two non-jump words.
st7789_parallelProgram == [Instructions |-> <<24584, 45122>>, Origin |-> -1]

\* Word k (from 0) of a synthetic program: jumps with and without condition
\* and delay bits, and non-jump words whose low bits look like an address.
SampleInstr(k) ==
    CASE k % 4 = 0 -> (k + 1) % 32           \* jmp k+1
      [] k % 4 = 1 -> 24584                  \* out pins, 8
      [] k % 4 = 2 -> 8160 + ((k + 29) % 32) \* jmp, condition and delay bits all set
      [] OTHER     -> 45122                  \* nop

MkProgram(len, origin) ==
    [Instructions |-> [i \in 1 .. len |-> SampleInstr(i - 1)], Origin |-> origin]

\* <<length, origin>> of the synthetic programs; origin -1 is relocatable.
ProgramShapes ==
    {<<3, -1>>, <<3, 5>>, <<3, 30>>, <<WORD_BITS, -1>>, <<WORD_BITS + 1, 0>>}

Programs ==
    {st7789_parallelProgram} \cup {MkProgram(sh[1], sh[2]) : sh \in ProgramShapes}

\* Offsets (uint8) handed to AddProgramAtOffset.
PlaceOffsets == {5, WORD_BITS - 1, WORD_BITS, 255}

\* Offsets a caller asks CanAddProgramAtOffset about.
QueryOffsets == {4, 5, 8}

(***************************************************************************)
(* The allocator (PIO.AddProgram and the methods it uses).                 *)
(***************************************************************************)
\* uint32((1 << n) - 1): 1 << n is 0 once n >= 32, and 0 - 1 wraps.
ProgramMask(n) == Dec32(Shl({0}, n))

\* uint32(origin) > 32 - programLen, the right side wrapping below zero:
\* a wrapped difference is 2^32 - (programLen - 32), above every int8.
OriginPastEnd(origin, programLen) ==
    IF programLen <= WORD_BITS THEN origin > WORD_BITS - programLen ELSE FALSE

\* A search that takes the lowest free span of 0..i instead of the highest.
SearchUpFrom0(mask, programMask, i) ==
    IF \E o \in 0 .. i : mask \cap Shl(programMask, o) = {}
    THEN Min({o \in 0 .. i : mask \cap Shl(programMask, o) = {}})
    ELSE -1

\* The loop of findOffsetForProgram from i down to 0: the first free span.
RECURSIVE SearchDown(_, _, _)
SearchDown(mask, programMask, i) ==
    IF i < 0 THEN -1
    ELSE IF mask \cap Shl(programMask, i) = {} THEN i
    ELSE SearchDown(mask, programMask, i - 1)

findOffsetForProgram(mask, program) ==
    LET programLen == Len(program.Instructions)
        programMask == ProgramMask(programLen)
    IN  IF program.Origin >= 0
        THEN IF OriginPastEnd(program.Origin, programLen) THEN -1
             ELSE IF mask \cap Shl(programMask, program.Origin) # {} THEN -1
             ELSE program.Origin
        ELSE SearchDown(mask, programMask, ToInt8(WORD_BITS - programLen))

\* A check that forgets the origin of a fixed-origin program.
CanAddIgnoringOrigin(mask, program, offset) ==
    mask \cap Shl(ProgramMask(Len(program.Instructions)), offset) = {}

CanAddProgramAtOffset(mask, program, offset) ==
    IF program.Origin >= 0 /\ program.Origin # ToInt8(offset)
    THEN FALSE
    ELSE mask \cap Shl(ProgramMask(Len(program.Instructions)), offset) = {}

\* A relocation that patches every word, jump or not.
RelocateEveryWord(instr, offset) == ToUint16(instr + offset)

\* The word AddProgramAtOffset stores for instr: a jump gets the offset added
\* to the whole 16-bit word.
Relocate(instr, offset) ==
    IF IsJmp(instr) THEN ToUint16(instr + offset) ELSE instr

\* writeInstructionMemory(offset+i, ...): the slot index is a uint8 sum.
SlotOf(offset, i) == ToUint8(offset + i)

\* reg.Set(uint32(value)) on the register at INSTR_MEM0 + 4*offset.  The
\* memory is write-only: the model keeps the last word written to each slot.
writeInstructionMemory(mem, offset, value) ==
    [s \in DOMAIN mem \cup {offset} |-> IF s = offset THEN value ELSE mem[s]]

\* The write loop of AddProgramAtOffset, i = from .. programLen-1.
RECURSIVE WriteLoop(_, _, _, _, _)
WriteLoop(mem, program, offset, i, programLen) ==
    IF i >= programLen THEN mem
    ELSE WriteLoop(writeInstructionMemory(mem, SlotOf(offset, i),
                       Relocate(program.Instructions[i + 1], offset)),
                   program, offset, i + 1, programLen)

\* The slots the write loop stores to.
SlotsWritten(program, offset) ==
    {SlotOf(offset, i) : i \in 0 .. (ToUint8(Len(program.Instructions)) - 1)}

\* A mask one bit short of the program.
BitsMarkedOneShort(program, offset) ==
    Shl(ProgramMask(ToUint8(Len(program.Instructions)) - 1), offset)

\* The bits AddProgramAtOffset ORs into usedSpaceMask.
BitsMarked(program, offset) ==
    Shl(ProgramMask(ToUint8(Len(program.Instructions))), offset)

NoCall == [program |-> st7789_parallelProgram, offset |-> 0, op |-> "none",
           panic |-> FALSE, result |-> 0, maskBefore |-> {},
           memBefore |-> <<>>]

AllocInit ==
    /\ usedSpaceMask = {}
    /\ INSTR_MEM = <<>>
    /\ loaded = <<>>
    /\ ret = NoCall
    /\ calls = 0

\* The body of AddProgramAtOffset once CanAddProgramAtOffset has passed.
Place(program, offset) ==
    /\ INSTR_MEM' = WriteLoop(INSTR_MEM, program, offset, 0,
                              ToUint8(Len(program.Instructions)))
    /\ usedSpaceMask' = usedSpaceMask \cup BitsMarked(program, offset)
    /\ loaded' = Append(loaded, [program |-> program, offset |-> offset,
                                 slots |-> SlotsWritten(program, offset),
                                 bits |-> BitsMarked(program, offset)])

\* A call on the allocator touches nothing else.
AllocOnly == UNCHANGED <<cfgVars, smVars, irqVars>>

Call(op, program, offset, panic, result) ==
    [program |-> program, offset |-> offset, op |-> op, panic |-> panic,
     result |-> result, maskBefore |-> usedSpaceMask, memBefore |-> INSTR_MEM]

AddProgram(program) ==
    /\ AllocOnly
    /\ calls < MaxLoads
    /\ calls' = calls + 1
    /\ LET offset == findOffsetForProgram(usedSpaceMask, program)
       IN  IF offset < 0
           THEN /\ ret' = Call("AddProgram", program, 0, TRUE, 0)
                /\ UNCHANGED <<usedSpaceMask, INSTR_MEM, loaded>>
           ELSE IF ~CanAddProgramAtOffset(usedSpaceMask, program, ToUint8(offset))
           THEN /\ ret' = Call("AddProgram", program, 0, TRUE, 0)
                /\ UNCHANGED <<usedSpaceMask, INSTR_MEM, loaded>>
           ELSE /\ ret' = Call("AddProgram", program, 0, FALSE, ToUint8(offset))
                /\ Place(program, ToUint8(offset))

AddProgramAtOffset(program, offset) ==
    /\ AllocOnly
    /\ calls < MaxLoads
    /\ calls' = calls + 1
    /\ IF ~CanAddProgramAtOffset(usedSpaceMask, program, offset)
       THEN /\ ret' = Call("AddProgramAtOffset", program, offset, TRUE, 0)
            /\ UNCHANGED <<usedSpaceMask, INSTR_MEM, loaded>>
       ELSE /\ ret' = Call("AddProgramAtOffset", program, offset, FALSE, offset)
            /\ Place(program, offset)

\* A caller's query: it reads the mask and writes nothing.
QueryCanAdd(program, offset) ==
    /\ AllocOnly
    /\ ret' = Call("CanAddProgramAtOffset", program, offset, FALSE,
                   IF CanAddProgramAtOffset(usedSpaceMask, program, offset)
                   THEN 1 ELSE 0)
    /\ UNCHANGED <<usedSpaceMask, INSTR_MEM, loaded, calls>>


(***************************************************************************)
(* Register fields of a state machine (device/rp, RP2040 datasheet 3.7).   *)
(***************************************************************************)
\* The bits pos .. pos+width-1 of a word: a field mask.
Field(pos, width) == pos .. (pos + width - 1)

CLKDIV_FRAC_Pos == 8

CLKDIV_INT_Pos == 16

EXECCTRL_WRAP_BOTTOM_Pos == 7

EXECCTRL_WRAP_TOP_Pos == 12

EXECCTRL_SIDE_PINDIR_Pos == 29

EXECCTRL_SIDE_EN_Pos == 30

SHIFTCTRL_AUTOPUSH_Pos == 16

SHIFTCTRL_AUTOPULL_Pos == 17

SHIFTCTRL_IN_SHIFTDIR_Pos == 18

SHIFTCTRL_OUT_SHIFTDIR_Pos == 19

SHIFTCTRL_PUSH_THRESH_Pos == 20

SHIFTCTRL_PULL_THRESH_Pos == 25

SHIFTCTRL_FJOIN_TX_Pos == 30

SHIFTCTRL_FJOIN_RX_Pos == 31

PINCTRL_SET_BASE_Pos == 5

PINCTRL_SIDESET_BASE_Pos == 10

PINCTRL_SET_COUNT_Pos == 26

PINCTRL_SIDESET_COUNT_Pos == 29

EXECCTRL_WRAP_BOTTOM_Msk == Field(EXECCTRL_WRAP_BOTTOM_Pos, 5)

EXECCTRL_WRAP_TOP_Msk == Field(EXECCTRL_WRAP_TOP_Pos, 5)

EXECCTRL_SIDE_PINDIR_Msk == Field(EXECCTRL_SIDE_PINDIR_Pos, 1)

EXECCTRL_SIDE_EN_Msk == Field(EXECCTRL_SIDE_EN_Pos, 1)

SHIFTCTRL_AUTOPUSH_Msk == Field(SHIFTCTRL_AUTOPUSH_Pos, 1)

SHIFTCTRL_AUTOPULL_Msk == Field(SHIFTCTRL_AUTOPULL_Pos, 1)

SHIFTCTRL_IN_SHIFTDIR_Msk == Field(SHIFTCTRL_IN_SHIFTDIR_Pos, 1)

SHIFTCTRL_OUT_SHIFTDIR_Msk == Field(SHIFTCTRL_OUT_SHIFTDIR_Pos, 1)

SHIFTCTRL_PUSH_THRESH_Msk == Field(SHIFTCTRL_PUSH_THRESH_Pos, 5)

SHIFTCTRL_PULL_THRESH_Msk == Field(SHIFTCTRL_PULL_THRESH_Pos, 5)

SHIFTCTRL_FJOIN_TX_Msk == Field(SHIFTCTRL_FJOIN_TX_Pos, 1)

SHIFTCTRL_FJOIN_RX_Msk == Field(SHIFTCTRL_FJOIN_RX_Pos, 1)

PINCTRL_SET_BASE_Msk == Field(PINCTRL_SET_BASE_Pos, 5)

PINCTRL_SIDESET_BASE_Msk == Field(PINCTRL_SIDESET_BASE_Pos, 5)

PINCTRL_SET_COUNT_Msk == Field(PINCTRL_SET_COUNT_Pos, 3)

PINCTRL_SIDESET_COUNT_Msk == Field(PINCTRL_SIDESET_COUNT_Pos, 3)

(***************************************************************************)
(* The configuration builder (StateMachineConfig and its setters).         *)
(***************************************************************************)
boolToBit(b) == IF b THEN 1 ELSE 0

\* StateMachineConfig{}: the four words zero.
ZeroConfig == [ClkDiv |-> {}, ExecCtrl |-> {}, ShiftCtrl |-> {}, PinCtrl |-> {}]

SetClkDivIntFrac(c, div, frac) ==
    [c EXCEPT !.ClkDiv = Shl(BitsOf(frac), CLKDIV_FRAC_Pos)
                         \cup Shl(BitsOf(div), CLKDIV_INT_Pos)]

SetWrap(c, wrapTarget, wrap) ==
    [c EXCEPT !.ExecCtrl =
        (@ \ (EXECCTRL_WRAP_TOP_Msk \cup EXECCTRL_WRAP_BOTTOM_Msk))
        \cup Shl(BitsOf(wrapTarget), EXECCTRL_WRAP_BOTTOM_Pos)
        \cup Shl(BitsOf(wrap), EXECCTRL_WRAP_TOP_Pos)]

SetInShift(c, shiftRight, autoPush, pushThreshold) ==
    [c EXCEPT !.ShiftCtrl =
        (@ \ (SHIFTCTRL_IN_SHIFTDIR_Msk \cup SHIFTCTRL_AUTOPUSH_Msk
              \cup SHIFTCTRL_PUSH_THRESH_Msk))
        \cup Shl(BitsOf(boolToBit(shiftRight)), SHIFTCTRL_IN_SHIFTDIR_Pos)
        \cup Shl(BitsOf(boolToBit(autoPush)), SHIFTCTRL_AUTOPUSH_Pos)
        \cup Shl(BitsOf(And16(pushThreshold, 31)), SHIFTCTRL_PUSH_THRESH_Pos)]

\* An out-shift default that leaves autopull enabled.
SetOutShiftAutoPullOn(c, shiftRight, autoPush, pushThreshold) ==
    [c EXCEPT !.ShiftCtrl =
        (@ \ (SHIFTCTRL_OUT_SHIFTDIR_Msk \cup SHIFTCTRL_PULL_THRESH_Msk))
        \cup SHIFTCTRL_AUTOPULL_Msk
        \cup Shl(BitsOf(boolToBit(shiftRight)), SHIFTCTRL_OUT_SHIFTDIR_Pos)
        \cup Shl(BitsOf(And16(pushThreshold, 31)), SHIFTCTRL_PULL_THRESH_Pos)]

SetOutShift(c, shiftRight, autoPush, pushThreshold) ==
    [c EXCEPT !.ShiftCtrl =
        (@ \ (SHIFTCTRL_OUT_SHIFTDIR_Msk \cup SHIFTCTRL_AUTOPULL_Msk
              \cup SHIFTCTRL_PULL_THRESH_Msk))
        \cup Shl(BitsOf(boolToBit(shiftRight)), SHIFTCTRL_OUT_SHIFTDIR_Pos)
        \cup Shl(BitsOf(boolToBit(autoPush)), SHIFTCTRL_AUTOPULL_Pos)
        \cup Shl(BitsOf(And16(pushThreshold, 31)), SHIFTCTRL_PULL_THRESH_Pos)]

SetSideSet(c, bitCount, optional, pindirs) ==
    [c EXCEPT
        !.PinCtrl = (@ \ PINCTRL_SIDESET_COUNT_Msk)
                    \cup Shl(BitsOf(bitCount), PINCTRL_SIDESET_COUNT_Pos),
        !.ExecCtrl = (@ \ (EXECCTRL_SIDE_EN_Msk \cup EXECCTRL_SIDE_PINDIR_Msk))
                     \cup Shl(BitsOf(boolToBit(optional)), EXECCTRL_SIDE_EN_Pos)
                     \cup Shl(BitsOf(boolToBit(pindirs)), EXECCTRL_SIDE_PINDIR_Pos)]

SetSetPins(c, base, count) ==
    [c EXCEPT !.PinCtrl =
        (@ \ (PINCTRL_SET_BASE_Msk \cup PINCTRL_SET_COUNT_Msk))
        \cup Shl(BitsOf(base), PINCTRL_SET_BASE_Pos)
        \cup Shl(BitsOf(count), PINCTRL_SET_COUNT_Pos)]

SetSidePins(c, pin) ==
    [c EXCEPT !.PinCtrl = (@ \ PINCTRL_SIDESET_BASE_Msk)
                          \cup Shl(BitsOf(pin), PINCTRL_SIDESET_BASE_Pos)]

FIFO_JOIN_NONE == 0

FIFO_JOIN_TX == 1

FIFO_JOIN_RX == 2

SetFIFOJoin(c, join) ==
    [c EXCEPT !.ShiftCtrl =
        (@ \ (SHIFTCTRL_FJOIN_TX_Msk \cup SHIFTCTRL_FJOIN_RX_Msk))
        \cup Shl(BitsOf(join), SHIFTCTRL_FJOIN_TX_Pos)]

DefaultStateMachineConfig ==
    SetOutShift(SetInShift(SetWrap(SetClkDivIntFrac(ZeroConfig, 1, 0), 0, 31),
                           TRUE, FALSE, 32),
                TRUE, FALSE, 32)

\* st7789_parallelProgramDefaultConfig: the wrap bounds are uint8 sums.
st7789_parallelProgramDefaultConfig(offset) ==
    SetSideSet(SetWrap(DefaultStateMachineConfig,
                       ToUint8(offset + 0), ToUint8(offset + 1)),
               1, FALSE, FALSE)

(***************************************************************************)
(* Arguments offered to the setters: uint8, uint16, bool and FifoJoin      *)
(* values, among them values wider than the field they are stored in.      *)
(***************************************************************************)
WrapArgs == {<<0, 31>>, <<2, 10>>, <<0, 32>>}

ShiftArgs == {<<TRUE, FALSE, 32>>, <<FALSE, TRUE, 8>>}

SideSetArgs == {<<1, FALSE, FALSE>>, <<0, TRUE, TRUE>>}

SetPinsArgs == {<<0, 5>>, <<0, 8>>, <<33, 1>>}

SidePinArgs == {1, 33}

JoinArgs == {FIFO_JOIN_NONE, FIFO_JOIN_TX, FIFO_JOIN_RX}

ClkDivArgs == {<<1, 0>>, <<5, 1>>}

CfgCall(op, args) ==
    [op |-> op, args |-> args, before |-> cfg, prevOp |-> cfgRet.op,
     prevArgs |-> cfgRet.args, prevBefore |-> cfgRet.before]

CfgInit ==
    /\ cfg = ZeroConfig
    /\ cfgRet = [op |-> "none", args |-> <<>>, before |-> ZeroConfig,
                 prevOp |-> "none", prevArgs |-> <<>>, prevBefore |-> ZeroConfig]
    /\ sets = 0

Builder(op, args, after) ==
    /\ UNCHANGED <<allocVars, smVars, irqVars>>
    /\ sets < MaxSets
    /\ sets' = sets + 1
    /\ cfgRet' = CfgCall(op, args)
    /\ cfg' = after

CallDefaultStateMachineConfig ==
    Builder("DefaultStateMachineConfig", <<>>, DefaultStateMachineConfig)

Call_st7789_parallelProgramDefaultConfig(a) ==
    Builder("st7789_parallelProgramDefaultConfig", <<a>>,
            st7789_parallelProgramDefaultConfig(a))

CallSetClkDivIntFrac(a) ==
    Builder("SetClkDivIntFrac", a, SetClkDivIntFrac(cfg, a[1], a[2]))

CallSetWrap(a) == Builder("SetWrap", a, SetWrap(cfg, a[1], a[2]))

CallSetInShift(a) ==
    Builder("SetInShift", a, SetInShift(cfg, a[1], a[2], a[3]))

CallSetOutShift(a) ==
    Builder("SetOutShift", a, SetOutShift(cfg, a[1], a[2], a[3]))

CallSetSideSet(a) ==
    Builder("SetSideSet", a, SetSideSet(cfg, a[1], a[2], a[3]))

CallSetSetPins(a) == Builder("SetSetPins", a, SetSetPins(cfg, a[1], a[2]))

CallSetSidePins(a) == Builder("SetSidePins", <<a>>, SetSidePins(cfg, a))

CallSetFIFOJoin(a) == Builder("SetFIFOJoin", <<a>>, SetFIFOJoin(cfg, a))

(***************************************************************************)
(* The PIO block's shared registers and volatile.Register32.               *)
(***************************************************************************)
\* Number of state machines of a PIO block.
NUM_SM == 4

CTRL_SM_ENABLE_Pos == 0

CTRL_SM_RESTART_Pos == 4

CTRL_CLKDIV_RESTART_Pos == 8

FDEBUG_RXSTALL_Pos == 0

FDEBUG_RXUNDER_Pos == 8

FDEBUG_TXOVER_Pos == 16

FDEBUG_TXSTALL_Pos == 24

\* The bits of CTRL that hold their value; SM_RESTART and CLKDIV_RESTART are
\* strobes that read back as 0.
CTRL_SM_ENABLE_Msk == Field(CTRL_SM_ENABLE_Pos, NUM_SM)

\* Register32.ReplaceBits that ORs the value in without clearing the field.
ReplaceBitsNoClear(reg, value, mask, pos) == reg \cup Shl(value, pos)

\* Register32.ReplaceBits: reg.Set(reg.Get()&^(mask<<pos) | value<<pos).
ReplaceBits(reg, value, mask, pos) == (reg \ Shl(mask, pos)) \cup Shl(value, pos)

\* Register32.SetBits: reg.Set(reg.Get() | value).
SetBits(reg, value) == reg \cup value

\* A write through the XOR alias that sets the bits instead of toggling them.
XORRegisterAsSet(reg, value) == reg \cup value

\* A write through the XOR alias (REG_ALIAS_XOR_BITS) of a register.
XORRegister(reg, value) == (reg \ value) \cup (value \ reg)

\* One register write as the log keeps it: sm is -1 for a shared register.
Write(reg, sm, alias, value) ==
    [value |-> value, reg |-> reg, sm |-> sm, alias |-> alias]

\* EncodeJmp(addr): an unconditional jump to addr.
EncodeJmp(addr) == INSTR_BITS_JMP + And16(addr, JMP_ADDR_Msk)

\* The opcode bits of a set instruction and the destination PINDIRS.
INSTR_BITS_SET == 57344

SrcDestPinDirs == 4

\* EncodeSet(dest, value): set dest to the 5-bit value.
EncodeSet(dest, value) == INSTR_BITS_SET + 32 * (dest % 8) + And16(value, 31)

(***************************************************************************)
(* The register blocks of the state machines (StateMachine.GetRegister).   *)
(***************************************************************************)
\* PIOStateMachineReg: byte offset of a register within a block.
StateMachineClkDivReg == 0

StateMachineExecCtrlReg == 4

StateMachineShiftCtrlReg == 8

StateMachineAddrReg == 12

StateMachineInstrReg == 16

StateMachinePinCtrlReg == 20

\* Bytes (6 registers) per state machine.
SM_STRIDE == 24

\* GetRegister with the blocks laid 5 registers apart.
GetRegisterFiveRegisters(index, reg) == index * (SM_STRIDE - 4) + reg

\* GetRegister: the byte offset from SM0_CLKDIV of register reg of index.
GetRegister(index, reg) == index * SM_STRIDE + reg

\* The register the hardware keeps at a byte offset from SM0_CLKDIV:
\* SM0_CLKDIV, SM0_EXECCTRL, SM0_SHIFTCTRL, SM0_ADDR, SM0_INSTR, SM0_PINCTRL,
\* SM1_CLKDIV, ...
RegisterName(offset) ==
    CASE offset % 24 = 0  -> "SM_CLKDIV"
      [] offset % 24 = 4  -> "SM_EXECCTRL"
      [] offset % 24 = 8  -> "SM_SHIFTCTRL"
      [] offset % 24 = 12 -> "SM_ADDR"
      [] offset % 24 = 16 -> "SM_INSTR"
      [] offset % 24 = 20 -> "SM_PINCTRL"

\* reg.Set(value) on the register at offset, through an alias.
WriteAt(offset, alias, value) ==
    Write(RegisterName(offset), offset \div 24, alias, value)

\* The value a block holds after a write to one of its registers.
StoreInBlock(block, w) ==
    LET new(old) == IF w.alias = "XOR" THEN XORRegister(old, w.value) ELSE w.value
    IN  CASE w.reg = "SM_CLKDIV"    -> [block EXCEPT !.CLKDIV = new(@)]
          [] w.reg = "SM_EXECCTRL"  -> [block EXCEPT !.EXECCTRL = new(@)]
          [] w.reg = "SM_SHIFTCTRL" -> [block EXCEPT !.SHIFTCTRL = new(@)]
          [] w.reg = "SM_INSTR"     -> [block EXCEPT !.INSTR = w.value]
          [] w.reg = "SM_PINCTRL"   -> [block EXCEPT !.PINCTRL = new(@)]
          [] OTHER                  -> block   \* SM_ADDR is read-only

\* The register blocks after one write.
Store(blocks, w) ==
    IF w.sm \in DOMAIN blocks
    THEN [blocks EXCEPT ![w.sm] = StoreInBlock(@, w)]
    ELSE blocks

\* The register blocks after the writes of log from position k on.
RECURSIVE StoreAll(_, _, _)
StoreAll(blocks, log, k) ==
    IF k > Len(log) THEN blocks ELSE StoreAll(Store(blocks, log[k]), log, k + 1)

(***************************************************************************)
(* The state machine controller (StateMachine and its methods).  Each      *)
(* method is given as the value it writes and the log entries it makes.    *)
(***************************************************************************)
\* PIO.StateMachine rejecting one index too few.
InvalidIndexAbove4(index) == index > 4

\* PIO.StateMachine: if index > 3 { panic(...) }.
InvalidIndex(index) == index > 3

\* The indexes (uint8) of the handles PIO.StateMachine returns: a
\* StateMachine value is only made there, its index field is unexported.
SMIndexes == {index \in 0 .. 255 : ~InvalidIndex(index)}

\* SetEnabled that writes the run bit of index alone.
SetEnabledValueAlone(ctrl, index, enabled) == Shl(BitsOf(boolToBit(enabled)), index)

\* SetEnabled: CTRL.ReplaceBits(boolToBit(enabled), 0x1, sm.index).
SetEnabledValue(ctrl, index, enabled) ==
    ReplaceBits(ctrl, BitsOf(boolToBit(enabled)), BitsOf(1), index)

\* Restart: CTRL.SetBits(1 << (SM_RESTART_Pos + sm.index)).
RestartValue(ctrl, index) == SetBits(ctrl, {CTRL_SM_RESTART_Pos + index})

\* ClkDivRestart: CTRL.SetBits(1 << (CLKDIV_RESTART_Pos + sm.index)).
ClkDivRestartValue(ctrl, index) == SetBits(ctrl, {CTRL_CLKDIV_RESTART_Pos + index})

\* Init: fdebugMask << sm.index.
FdebugMask(index) ==
    Shl({FDEBUG_TXOVER_Pos, FDEBUG_RXUNDER_Pos, FDEBUG_TXSTALL_Pos,
         FDEBUG_RXSTALL_Pos}, index)

\* SetConfig: the four configuration words, each through GetRegister.
SetConfigLog(index, c) ==
    <<WriteAt(GetRegister(index, StateMachineClkDivReg), "RW", c.ClkDiv),
      WriteAt(GetRegister(index, StateMachineExecCtrlReg), "RW", c.ExecCtrl),
      WriteAt(GetRegister(index, StateMachineShiftCtrlReg), "RW", c.ShiftCtrl),
      WriteAt(GetRegister(index, StateMachinePinCtrlReg), "RW", c.PinCtrl)>>

\* Exec: GetRegister(StateMachineInstrReg).Set(uint32(instr)).
ExecLog(index, instr) ==
    <<WriteAt(GetRegister(index, StateMachineInstrReg), "RW", instr)>>

\* ClearFIFOs: one xorReg.Set(FJOIN_RX_Msk) on the shift control register.
ClearFIFOsWrite(index) ==
    WriteAt(GetRegister(index, StateMachineShiftCtrlReg), "XOR",
            SHIFTCTRL_FJOIN_RX_Msk)

\* ClearFIFOs: the two writes through the XOR alias.
ClearFIFOsLog(index) == <<ClearFIFOsWrite(index), ClearFIFOsWrite(index)>>

\* SetConsecutivePinDirs: the pin control value of one chunk and its
\* immediate set instruction.
PinDirChunk(index, pin, count, pindir_val) ==
    <<WriteAt(GetRegister(index, StateMachinePinCtrlReg), "RW",
              Shl(BitsOf(count), PINCTRL_SET_COUNT_Pos)
                  \cup Shl(BitsOf(pin), PINCTRL_SET_BASE_Pos))>>
    \o ExecLog(index, EncodeSet(SrcDestPinDirs, pindir_val))

\* The chunks of SetConsecutivePinDirs with the loop run for count >= 5.
RECURSIVE PinDirWritesFromFive(_, _, _, _)
PinDirWritesFromFive(index, pin, count, pindir_val) ==
    IF count >= 5
    THEN PinDirChunk(index, pin, 5, pindir_val)
         \o PinDirWritesFromFive(index, And16(ToUint8(pin + 5), 31), count - 5,
                                 pindir_val)
    ELSE PinDirChunk(index, pin, count, pindir_val)

\* SetConsecutivePinDirs: for count > 5 { ... count -= 5; pin = (pin+5) & 0x1f }
\* and the chunk after the loop.
RECURSIVE PinDirWrites(_, _, _, _)
PinDirWrites(index, pin, count, pindir_val) ==
    IF count > 5
    THEN PinDirChunk(index, pin, 5, pindir_val)
         \o PinDirWrites(index, And16(ToUint8(pin + 5), 31), count - 5, pindir_val)
    ELSE PinDirChunk(index, pin, count, pindir_val)

\* SetConsecutivePinDirs that leaves the last chunk's pin control value.
PinDirLogNoRestore(index, pin, count, isOut, pinctrl_saved) ==
    PinDirWrites(index, pin, count, IF isOut THEN 31 ELSE 0)

\* SetConsecutivePinDirs: the chunks, then reg.Set(pinctrl_saved).
PinDirLog(index, pin, count, isOut, pinctrl_saved) ==
    PinDirWrites(index, pin, count, IF isOut THEN 31 ELSE 0)
    \o <<WriteAt(GetRegister(index, StateMachinePinCtrlReg), "RW", pinctrl_saved)>>

\* reg.Get() of a register of index: the value the block at its offset holds.
ReadPinCtrl(blocks, index) ==
    blocks[GetRegister(index, StateMachinePinCtrlReg) \div 24].PINCTRL

\* The cfg argument of Init: nil, or a pointer to a configuration.
NilConfig == [value |-> ZeroConfig, nil |-> TRUE]

ConfigArg(c) == [value |-> c, nil |-> FALSE]

\* The configuration Init applies.
InitConfig(arg) == IF arg.nil THEN DefaultStateMachineConfig ELSE arg.value

Idle == [cfg |-> NilConfig, op |-> "idle", index |-> 0, step |-> "",
         initialPC |-> 0, ctrl0 |-> {}]

\* The register blocks after a reset of the chip: all zero but CLKDIV.INT = 1,
\* EXECCTRL wrap top 31 and the shift directions.
ResetBlock == [CLKDIV |-> {CLKDIV_INT_Pos},
               EXECCTRL |-> EXECCTRL_WRAP_TOP_Msk,
               SHIFTCTRL |-> SHIFTCTRL_IN_SHIFTDIR_Msk \cup SHIFTCTRL_OUT_SHIFTDIR_Msk,
               INSTR |-> 0,
               PINCTRL |-> {PINCTRL_SET_COUNT_Pos, PINCTRL_SET_COUNT_Pos + 2}]

Step(op, index, enabled) ==
    [op |-> op, panic |-> FALSE, args |-> <<>>, index |-> index,
     enabled |-> enabled, ctrlBefore |-> CTRL]

SMInit ==
    /\ CTRL = {}
    /\ FDEBUG = {}
    /\ SM = [i \in 0 .. (NUM_SM - 1) |-> ResetBlock]
    /\ smPc = Idle
    /\ smLog = <<>>
    /\ smRet = [op |-> "none", panic |-> FALSE, args |-> <<>>, index |-> 0,
                enabled |-> FALSE, ctrlBefore |-> {}]
    /\ smCalls = 0

\* A call on the controller touches neither the allocator nor a builder.
SMOnly == UNCHANGED <<allocVars, cfgVars, irqVars>>

\* PIO.StateMachine(index): a handle for index, or a panic that ends the
\* program.
StateMachine(index) ==
    /\ smPc.op = "idle"
    /\ irqPc.op = "idle"
    /\ smPc' = IF InvalidIndex(index) THEN [smPc EXCEPT !.op = "panicked"] ELSE smPc
    /\ smRet' = [Step("StateMachine", index, FALSE) EXCEPT
                     !.panic = InvalidIndex(index)]
    /\ UNCHANGED <<allocVars, cfgVars, irqVars, CTRL, FDEBUG, SM, smLog, smCalls>>

\* A new call starts when no call is in progress.
NewCall ==
    /\ SMOnly
    /\ smPc.op = "idle"
    /\ smCalls < MaxCalls
    /\ smCalls' = smCalls + 1

\* A step of the call in progress.
InitAt(step, next) ==
    /\ SMOnly
    /\ smPc.op = "Init"
    /\ smPc.step = step
    /\ smPc' = IF next = "returned"
               THEN [smPc EXCEPT !.op = "idle", !.step = next]
               ELSE [smPc EXCEPT !.step = next]
    /\ smRet' = Step("Init", smPc.index, FALSE)
    /\ UNCHANGED smCalls

SetEnabled(index, enabled) ==
    /\ NewCall
    /\ CTRL' = SetEnabledValue(CTRL, index, enabled) \cap CTRL_SM_ENABLE_Msk
    /\ smLog' = <<Write("CTRL", -1, "RW", SetEnabledValue(CTRL, index, enabled))>>
    /\ smRet' = Step("SetEnabled", index, enabled)
    /\ UNCHANGED <<FDEBUG, SM, smPc>>

Restart(index) ==
    /\ NewCall
    /\ CTRL' = RestartValue(CTRL, index) \cap CTRL_SM_ENABLE_Msk
    /\ smLog' = <<Write("CTRL", -1, "RW", RestartValue(CTRL, index))>>
    /\ smRet' = Step("Restart", index, FALSE)
    /\ UNCHANGED <<FDEBUG, SM, smPc>>

ClkDivRestart(index) ==
    /\ NewCall
    /\ CTRL' = ClkDivRestartValue(CTRL, index) \cap CTRL_SM_ENABLE_Msk
    /\ smLog' = <<Write("CTRL", -1, "RW", ClkDivRestartValue(CTRL, index))>>
    /\ smRet' = Step("ClkDivRestart", index, FALSE)
    /\ UNCHANGED <<FDEBUG, SM, smPc>>

\* A method that writes only registers of the blocks: its log, then the
\* blocks after the writes in order.
BlockCall(op, index, args, log) ==
    /\ NewCall
    /\ smLog' = log
    /\ SM' = StoreAll(SM, log, 1)
    /\ smRet' = [Step(op, index, FALSE) EXCEPT !.args = args]
    /\ UNCHANGED <<CTRL, FDEBUG, smPc>>

SetConfig(index, c) ==
    /\ smPc.op = "idle"
    /\ BlockCall("SetConfig", index, <<>>, SetConfigLog(index, c))

Exec(index, instr) ==
    /\ smPc.op = "idle"
    /\ BlockCall("Exec", index, <<instr>>, ExecLog(index, instr))

ClearFIFOs(index) ==
    /\ smPc.op = "idle"
    /\ BlockCall("ClearFIFOs", index, <<>>, ClearFIFOsLog(index))

SetConsecutivePinDirs(index, pin, count, isOut) ==
    /\ smPc.op = "idle"
    /\ BlockCall("SetConsecutivePinDirs", index, <<pin, count, isOut>>,
                 PinDirLog(index, pin, count, isOut, ReadPinCtrl(SM, index)))

\* The hardware latches a FIFO error flag of a state machine.
LatchFifoError(index, pos) ==
    /\ NewCall
    /\ FDEBUG' = FDEBUG \cup {pos + index}
    /\ smRet' = Step("LatchFifoError", index, FALSE)
    /\ UNCHANGED <<CTRL, SM, smPc, smLog>>

\* Init, first statement: sm.SetEnabled(false).
Init_SetEnabled(index, initialPC, c) ==
    /\ NewCall
    /\ smPc' = [cfg |-> c, op |-> "Init", index |-> index, step |-> "SetConfig",
                initialPC |-> initialPC, ctrl0 |-> CTRL]
    /\ CTRL' = SetEnabledValue(CTRL, index, FALSE) \cap CTRL_SM_ENABLE_Msk
    /\ smLog' = <<Write("CTRL", -1, "RW", SetEnabledValue(CTRL, index, FALSE))>>
    /\ smRet' = Step("Init", index, FALSE)
    /\ UNCHANGED <<FDEBUG, SM>>

\* A step of Init that writes registers of the blocks.
InitBlockStep(step, next, log) ==
    /\ InitAt(step, next)
    /\ SM' = StoreAll(SM, log, 1)
    /\ smLog' = smLog \o log
    /\ UNCHANGED <<CTRL, FDEBUG>>

\* Init: sm.SetConfig(cfg), or the default configuration for a nil cfg.
Init_SetConfig ==
    /\ smPc.op = "Init"
    /\ InitBlockStep("SetConfig", "ClearFIFOs",
                     SetConfigLog(smPc.index, InitConfig(smPc.cfg)))

\* Init: sm.ClearFIFOs(), the first write through the XOR alias.
Init_ClearFIFOs ==
    /\ smPc.op = "Init"
    /\ InitBlockStep("ClearFIFOs", "ClearFIFOs2", <<ClearFIFOsWrite(smPc.index)>>)

\* Init: sm.ClearFIFOs(), the second write through the XOR alias.
Init_ClearFIFOs2 ==
    /\ smPc.op = "Init"
    /\ InitBlockStep("ClearFIFOs2", "FDEBUG", <<ClearFIFOsWrite(smPc.index)>>)

\* Init: FDEBUG.Set(fdebugMask << sm.index); a flag written 1 is cleared.
Init_ClearDebugFlags ==
    /\ InitAt("FDEBUG", "Restart")
    /\ FDEBUG' = FDEBUG \ FdebugMask(smPc.index)
    /\ smLog' = Append(smLog, Write("FDEBUG", -1, "RW", FdebugMask(smPc.index)))
    /\ UNCHANGED <<CTRL, SM>>

\* Init: sm.Restart().
Init_Restart ==
    /\ InitAt("Restart", "ClkDivRestart")
    /\ CTRL' = RestartValue(CTRL, smPc.index) \cap CTRL_SM_ENABLE_Msk
    /\ smLog' = Append(smLog, Write("CTRL", -1, "RW",
                                    RestartValue(CTRL, smPc.index)))
    /\ UNCHANGED <<FDEBUG, SM>>

\* Init: sm.ClkDivRestart().
Init_ClkDivRestart ==
    /\ InitAt("ClkDivRestart", "Exec")
    /\ CTRL' = ClkDivRestartValue(CTRL, smPc.index) \cap CTRL_SM_ENABLE_Msk
    /\ smLog' = Append(smLog, Write("CTRL", -1, "RW",
                                    ClkDivRestartValue(CTRL, smPc.index)))
    /\ UNCHANGED <<FDEBUG, SM>>

\* Init, last statement: sm.Exec(EncodeJmp(uint16(initialPC))).
Init_Exec ==
    /\ smPc.op = "Init"
    /\ InitBlockStep("Exec", "returned",
                     ExecLog(smPc.index, EncodeJmp(smPc.initialPC)))

\* Arguments offered to the controller.
RequestedIndexes == {0, 1, 2, 3, 4, 255}

\* The two state machines a driver uses.
DriverIndexes == {1, 3}

StartPCs == {0, 30}

InitConfigs == {NilConfig, ConfigArg(st7789_parallelProgramDefaultConfig(30))}

LatchedFlags == {FDEBUG_TXSTALL_Pos, FDEBUG_RXUNDER_Pos}

\* Configurations a driver applies with SetConfig: the generated default of
\* its program, and one with the receive FIFO joined.
DriverConfigs ==
    {st7789_parallelProgramDefaultConfig(30),
     SetFIFOJoin(DefaultStateMachineConfig, FIFO_JOIN_RX)}

\* <<pin, count, isOut>> handed to SetConsecutivePinDirs.
PinDirArgs ==
    {<<30, 7, TRUE>>, <<3, 5, FALSE>>, <<31, 11, FALSE>>, <<0, 1, TRUE>>,
     <<2, 10, FALSE>>}

\* Instructions handed to Exec.
ExecInstrs == {EncodeJmp(30)}

(***************************************************************************)
(* The shared control register under interrupt preemption: a method of the *)
(* main context is taken as its two accesses of CTRL, the Get and the Set  *)
(* of ReplaceBits or SetBits, and an interrupt handler may run a whole     *)
(* SetEnabled between them.                                                *)
(***************************************************************************)
NoAccess == [op |-> "idle", index |-> 0, enabled |-> FALSE, read |-> {},
             callsAtRead |-> 0]

NoPreempted == [op |-> "none", index |-> 0, enabled |-> FALSE,
                preemptions |-> 0, by |-> 0, byEnabled |-> FALSE,
                ctrlAfter |-> {}]

IrqInit ==
    /\ irqPc = NoAccess
    /\ irqRet = NoPreempted
    /\ irqCalls = 0

\* The value the Set of a method writes to CTRL, from the value its Get read.
CtrlValue(op, read, index, enabled) ==
    CASE op = "SetEnabled"    -> SetEnabledValue(read, index, enabled)
      [] op = "Restart"       -> RestartValue(read, index)
      [] op = "ClkDivRestart" -> ClkDivRestartValue(read, index)

\* <<method, enabled>> of the updates the main context makes, the indexes
\* it makes them on, and the indexes the interrupt handler enables or halts.
CtrlMethods ==
    {<<"SetEnabled", TRUE>>, <<"SetEnabled", FALSE>>, <<"Restart", FALSE>>,
     <<"ClkDivRestart", FALSE>>}

MainIndexes == {0, 2}

HandlerIndexes == {1, 2}

\* reg.Get() of SetEnabled, Restart or ClkDivRestart in the main context.
Main_Get(op, index, enabled) ==
    /\ irqPc.op = "idle"
    /\ smPc.op = "idle"
    /\ irqCalls < MaxCalls
    /\ irqCalls' = irqCalls + 1
    /\ irqPc' = [op |-> op, index |-> index, enabled |-> enabled,
                 read |-> CTRL, callsAtRead |-> smCalls]
    /\ UNCHANGED <<allocVars, cfgVars, smVars, irqRet>>

\* reg.Set(...) of the method in progress: the value computed from the read.
Main_Set ==
    /\ irqPc.op # "idle"
    /\ CTRL' = CtrlValue(irqPc.op, irqPc.read, irqPc.index, irqPc.enabled)
                   \cap CTRL_SM_ENABLE_Msk
    /\ irqRet' = [op |-> irqPc.op, index |-> irqPc.index,
                  enabled |-> irqPc.enabled,
                  preemptions |-> smCalls - irqPc.callsAtRead,
                  by |-> smRet.index, byEnabled |-> smRet.enabled,
                  ctrlAfter |-> CTRL']
    /\ irqPc' = NoAccess
    /\ UNCHANGED <<allocVars, cfgVars, FDEBUG, SM, smPc, smLog, smRet,
                   smCalls, irqCalls>>

(***************************************************************************)
(* Specifications.                                                         *)
(***************************************************************************)
Init == AllocInit /\ CfgInit /\ SMInit /\ IrqInit

\* The allocator of one PIO block.
Next ==
    \/ \E program \in Programs : AddProgram(program)
    \/ \E program \in Programs, offset \in PlaceOffsets :
           AddProgramAtOffset(program, offset)
    \/ \E program \in Programs, offset \in QueryOffsets :
           QueryCanAdd(program, offset)

Spec == Init /\ [][Next]_vars

\* The configuration builder.
NextCfg ==
    \/ CallDefaultStateMachineConfig
    \/ \E a \in PlaceOffsets : Call_st7789_parallelProgramDefaultConfig(a)
    \/ \E a \in ClkDivArgs : CallSetClkDivIntFrac(a)
    \/ \E a \in WrapArgs : CallSetWrap(a)
    \/ \E a \in ShiftArgs : CallSetInShift(a)
    \/ \E a \in ShiftArgs : CallSetOutShift(a)
    \/ \E a \in SideSetArgs : CallSetSideSet(a)
    \/ \E a \in SetPinsArgs : CallSetSetPins(a)
    \/ \E a \in SidePinArgs : CallSetSidePins(a)
    \/ \E a \in JoinArgs : CallSetFIFOJoin(a)

SpecCfg == Init /\ [][NextCfg]_vars

\* The state machine controller of one PIO block: the run state.
NextSM ==
    \/ \E i \in SMIndexes, e \in BOOLEAN : SetEnabled(i, e)
    \/ \E i \in SMIndexes : Restart(i)
    \/ \E i \in SMIndexes : ClkDivRestart(i)
    \/ \E i \in SMIndexes, pos \in LatchedFlags : LatchFifoError(i, pos)
    \/ \E i \in SMIndexes, pc \in StartPCs, c \in InitConfigs :
           Init_SetEnabled(i, pc, c)
    \/ Init_SetConfig
    \/ Init_ClearFIFOs
    \/ Init_ClearFIFOs2
    \/ Init_ClearDebugFlags
    \/ Init_Restart
    \/ Init_ClkDivRestart
    \/ Init_Exec

SpecSM == Init /\ [][NextSM]_vars

\* A driver of two state machines: it loads its program and uses every
\* method of the controller.
NextDriver ==
    \/ AddProgram(st7789_parallelProgram)
    \/ \E i \in DriverIndexes : SetEnabled(i, TRUE)
    \/ \E i \in DriverIndexes : Restart(i)
    \/ \E i \in DriverIndexes : ClkDivRestart(i)
    \/ \E i \in DriverIndexes, c \in DriverConfigs : SetConfig(i, c)
    \/ \E i \in DriverIndexes, instr \in ExecInstrs : Exec(i, instr)
    \/ \E i \in DriverIndexes : ClearFIFOs(i)
    \/ \E i \in DriverIndexes, a \in PinDirArgs :
           SetConsecutivePinDirs(i, a[1], a[2], a[3])
    \/ \E i \in DriverIndexes : LatchFifoError(i, FDEBUG_TXSTALL_Pos)
    \/ \E i \in DriverIndexes, c \in InitConfigs : Init_SetEnabled(i, 30, c)
    \/ Init_SetConfig
    \/ Init_ClearFIFOs
    \/ Init_ClearFIFOs2
    \/ Init_ClearDebugFlags
    \/ Init_Restart
    \/ Init_ClkDivRestart
    \/ Init_Exec

SpecDriver == Init /\ [][NextDriver]_vars

\* A caller that asks for handles and uses the ones it gets.
NextHandles ==
    \/ \E i \in RequestedIndexes : StateMachine(i)
    \/ \E i \in SMIndexes, e \in BOOLEAN : SetEnabled(i, e)
    \/ \E i \in SMIndexes, instr \in ExecInstrs : Exec(i, instr)

SpecHandles == Init /\ [][NextHandles]_vars

\* The control register with an interrupt handler that calls SetEnabled.
NextIrq ==
    \/ \E m \in CtrlMethods, i \in MainIndexes \cap SMIndexes :
           Main_Get(m[1], i, m[2])
    \/ Main_Set
    \/ \E i \in HandlerIndexes \cap SMIndexes, e \in BOOLEAN : SetEnabled(i, e)

SpecIrq == Init /\ [][NextIrq]_vars

(***************************************************************************)
(* Properties of the allocator.                                            *)
(***************************************************************************)
\* The slots [o, o+len) of a placement, as plain integers.
Span(o, len) == o .. (o + len - 1)

\* The offsets of 0 .. 32-len whose whole span is free in mask.
Fits(len, mask) ==
    {o \in 0 .. (WORD_BITS - len) : Span(o, len) \cap mask = {}}

\* A fit exists for program: at its origin if it has one, anywhere otherwise.
FitExists(program, mask) ==
    LET len == Len(program.Instructions)
    IN  IF program.Origin >= 0
        THEN /\ program.Origin + len <= WORD_BITS
             /\ Span(program.Origin, len) \cap mask = {}
        ELSE Fits(len, mask) # {}

Placed == ret.op \in {"AddProgram", "AddProgramAtOffset"} /\ ~ret.panic

\* C1: no two loaded programs collide: the slots written for a program
\* include no slot written for an earlier loaded program, and the occupancy
\* bits set for it overlap no bits set for an earlier one.
C1_NoCollision ==
    \A i, j \in 1 .. Len(loaded) :
        i < j => /\ loaded[j].slots \cap loaded[i].slots = {}
                 /\ loaded[j].bits \cap loaded[i].bits = {}

\* C2: a successful AddProgram of a relocatable program of length L <= 32
\* returns an offset o with o + L <= 32, no bit of [o, o+L) was occupied
\* before the call, and the mask afterwards is the mask before plus exactly
\* the bits [o, o+L).
C2_LoadPlacesInFreeSpan ==
    (/\ ret.op = "AddProgram"
     /\ ~ret.panic
     /\ ret.program.Origin < 0
     /\ Len(ret.program.Instructions) <= WORD_BITS)
    => LET o == ret.result
           len == Len(ret.program.Instructions)
       IN  /\ o + len <= WORD_BITS
           /\ Span(o, len) \cap ret.maskBefore = {}
           /\ usedSpaceMask = ret.maskBefore \cup Span(o, len)

C2_Witness ==
    /\ ret.op = "AddProgram"
    /\ ~ret.panic
    /\ ret.program = MkProgram(3, -1)
    /\ ret.maskBefore = {5, 6, 7}
    /\ usedSpaceMask = {5, 6, 7, 29, 30, 31}

\* C3: AddProgram of a relocatable program of length L returns the highest
\* offset of [0, 32-L] whose span is entirely free in the mask; on a fully
\* free memory that is 32 - L (30 for a 2-word program).
C3_HighestFit ==
    (/\ ret.op = "AddProgram"
     /\ ret.program.Origin < 0
     /\ Fits(Len(ret.program.Instructions), ret.maskBefore) # {})
    => /\ ~ret.panic
       /\ ret.result = Max(Fits(Len(ret.program.Instructions), ret.maskBefore))
       /\ ret.maskBefore = {}
            => ret.result = WORD_BITS - Len(ret.program.Instructions)
       /\ (ret.maskBefore = {} /\ ret.program = st7789_parallelProgram)
            => ret.result = 30

C3_Witness ==
    /\ ret.op = "AddProgram"
    /\ ret.program = st7789_parallelProgram
    /\ ret.maskBefore = {29, 30, 31}
    /\ ret.result = 27

\* C4: AddProgram fails exactly when no fit exists (a fixed-origin program
\* whose span passes slot 32 or overlaps an occupied slot, a relocatable
\* program with no free span), for programs of any length; a failure leaves
\* the mask and the instruction memory unchanged, and a fixed-origin program
\* that is loaded is placed at its origin.
C4_LoadFailsIffNoFit ==
    ret.op = "AddProgram"
    => /\ ret.panic <=> ~FitExists(ret.program, ret.maskBefore)
       /\ ret.panic => /\ usedSpaceMask = ret.maskBefore
                       /\ INSTR_MEM = ret.memBefore
       /\ (~ret.panic /\ ret.program.Origin >= 0)
            => ret.result = ret.program.Origin

\* C5: CanAddProgramAtOffset answers false when the program has a fixed
\* origin other than the offset or when a slot of [offset, offset+L) is
\* occupied, and changes no state; a fixed-origin program of length 3 placed
\* at 5 occupies exactly bits {5,6,7}, and every later query whose span
\* meets {5,6,7} is answered false.  AddProgramAtOffset, which asks the same
\* question, then panics.
C5_CanAddFalse ==
    LET len == Len(ret.program.Instructions)
        misfit == \/ ret.program.Origin >= 0 /\ ret.program.Origin # ret.offset
                  \/ Span(ret.offset, len) \cap ret.maskBefore # {}
    IN  /\ ret.op = "CanAddProgramAtOffset"
            => /\ misfit => ret.result = 0
               /\ usedSpaceMask = ret.maskBefore
               /\ INSTR_MEM = ret.memBefore
        /\ (ret.op = "AddProgramAtOffset" /\ misfit) => ret.panic
        /\ \A k \in 1 .. Len(loaded) :
               (loaded[k].program = MkProgram(3, 5) /\ loaded[k].offset = 5)
               => /\ loaded[k].bits = {5, 6, 7}
                  /\ {5, 6, 7} \subseteq usedSpaceMask
                  /\ (/\ ret.op = "CanAddProgramAtOffset"
                      /\ Span(ret.offset, len) \cap {5, 6, 7} # {})
                       => ret.result = 0

C5_Witness ==
    /\ ret.op = "CanAddProgramAtOffset"
    /\ ret.program = st7789_parallelProgram
    /\ ret.offset = 4
    /\ ret.result = 0
    /\ ret.maskBefore = {5, 6, 7}
    /\ loaded = <<[program |-> MkProgram(3, 5), offset |-> 5,
                   slots |-> {5, 6, 7}, bits |-> {5, 6, 7}]>>

\* C6: a placement at offset O stores instruction i at slot O+i (an 8-bit
\* index): a jump with address operand A is stored with address operand
\* (A + O) mod 32, and a non-jump word is stored bit for bit.
C6_Relocation ==
    Placed =>
        \A i \in 0 .. (Len(ret.program.Instructions) - 1) :
            LET instr == ret.program.Instructions[i + 1]
                slot == ToUint8(ret.result + i)
            IN  /\ slot \in DOMAIN INSTR_MEM
                /\ IF INSTR_BITS_JMP = And16(instr, INSTR_BITS_Msk)
                   THEN JmpAddr(INSTR_MEM[slot]) =
                            (JmpAddr(instr) + ret.result) % 32
                   ELSE INSTR_MEM[slot] = instr

C6_Witness ==
    /\ Placed
    /\ ret.program = MkProgram(3, -1)
    /\ ret.result = 31
    /\ INSTR_MEM[31] = 32
    /\ INSTR_MEM[32] = 24584

(***************************************************************************)
(* Properties of the configuration builder.                                *)
(***************************************************************************)
NoBits == [ClkDiv |-> {}, ExecCtrl |-> {}, ShiftCtrl |-> {}, PinCtrl |-> {}]

\* The setters the field properties are about.
Setters == {"SetWrap", "SetInShift", "SetOutShift", "SetSideSet",
            "SetSetPins", "SetSidePins", "SetFIFOJoin"}

\* The bits of the fields a setter owns, word by word.
Owned(op) ==
    CASE op = "SetWrap" ->
           [NoBits EXCEPT !.ExecCtrl =
                EXECCTRL_WRAP_TOP_Msk \cup EXECCTRL_WRAP_BOTTOM_Msk]
      [] op = "SetInShift" ->
           [NoBits EXCEPT !.ShiftCtrl =
                SHIFTCTRL_IN_SHIFTDIR_Msk \cup SHIFTCTRL_AUTOPUSH_Msk
                \cup SHIFTCTRL_PUSH_THRESH_Msk]
      [] op = "SetOutShift" ->
           [NoBits EXCEPT !.ShiftCtrl =
                SHIFTCTRL_OUT_SHIFTDIR_Msk \cup SHIFTCTRL_AUTOPULL_Msk
                \cup SHIFTCTRL_PULL_THRESH_Msk]
      [] op = "SetSideSet" ->
           [NoBits EXCEPT !.PinCtrl = PINCTRL_SIDESET_COUNT_Msk,
                          !.ExecCtrl =
                EXECCTRL_SIDE_EN_Msk \cup EXECCTRL_SIDE_PINDIR_Msk]
      [] op = "SetSetPins" ->
           [NoBits EXCEPT !.PinCtrl =
                PINCTRL_SET_BASE_Msk \cup PINCTRL_SET_COUNT_Msk]
      [] op = "SetSidePins" ->
           [NoBits EXCEPT !.PinCtrl = PINCTRL_SIDESET_BASE_Msk]
      [] op = "SetFIFOJoin" ->
           [NoBits EXCEPT !.ShiftCtrl =
                SHIFTCTRL_FJOIN_TX_Msk \cup SHIFTCTRL_FJOIN_RX_Msk]

\* The bits in which two words differ.
Differ(a, b) == (a \ b) \cup (b \ a)

\* The value v sits in the field msk at pos of word.
FieldIs(word, msk, pos, v) == word \cap msk = Shl(BitsOf(v), pos)

\* C7: every setter changes only the bits of the fields it owns, for every
\* argument of its parameter types and every prior configuration; SetWrap
\* (2,10) after SetWrap(0,31) leaves the wrap fields at (2,10) and every
\* other exec-control bit as before.
C7_SettersOwnTheirBits ==
    /\ cfgRet.op \in Setters
         => \A w \in DOMAIN cfg :
                Differ(cfg[w], cfgRet.before[w]) \subseteq Owned(cfgRet.op)[w]
    /\ (cfgRet.op = "SetWrap" /\ cfgRet.args = <<2, 10>>)
         => /\ FieldIs(cfg.ExecCtrl, EXECCTRL_WRAP_BOTTOM_Msk,
                       EXECCTRL_WRAP_BOTTOM_Pos, 2)
            /\ FieldIs(cfg.ExecCtrl, EXECCTRL_WRAP_TOP_Msk,
                       EXECCTRL_WRAP_TOP_Pos, 10)

\* The setter named op applied to c with the recorded arguments.
Apply(op, a, c) ==
    CASE op = "SetWrap" -> SetWrap(c, a[1], a[2])
      [] op = "SetInShift" -> SetInShift(c, a[1], a[2], a[3])
      [] op = "SetOutShift" -> SetOutShift(c, a[1], a[2], a[3])
      [] op = "SetSideSet" -> SetSideSet(c, a[1], a[2], a[3])
      [] op = "SetSetPins" -> SetSetPins(c, a[1], a[2])
      [] op = "SetSidePins" -> SetSidePins(c, a[1])
      [] op = "SetFIFOJoin" -> SetFIFOJoin(c, a[1])

\* Two different setters that own fields of a common word, all disjoint.
DisjointFieldsSameWord(a, b) ==
    /\ a \in Setters /\ b \in Setters /\ a # b
    /\ \E w \in DOMAIN NoBits : Owned(a)[w] # {} /\ Owned(b)[w] # {}
    /\ \A w \in DOMAIN NoBits : Owned(a)[w] \cap Owned(b)[w] = {}

\* C8: applying a setter twice with the same arguments gives what applying
\* it once gives, and two setters that own disjoint fields of a word give
\* the same configuration in either order, for every configuration and
\* every argument.
C8_IdempotentAndCommuting ==
    /\ cfgRet.op \in Setters => Apply(cfgRet.op, cfgRet.args, cfg) = cfg
    /\ DisjointFieldsSameWord(cfgRet.prevOp, cfgRet.op)
         => cfg = Apply(cfgRet.prevOp, cfgRet.prevArgs,
                        Apply(cfgRet.op, cfgRet.args, cfgRet.prevBefore))

\* The parts of the default configuration on which description and code agree:
\* clock divisor (1, 0), wrap range (0, 31), both thresholds 32 (stored 0).
DefaultDivWrapThresholds ==
    /\ cfg.ClkDiv = Shl(BitsOf(1), CLKDIV_INT_Pos)
    /\ FieldIs(cfg.ExecCtrl, EXECCTRL_WRAP_BOTTOM_Msk, EXECCTRL_WRAP_BOTTOM_Pos, 0)
    /\ FieldIs(cfg.ExecCtrl, EXECCTRL_WRAP_TOP_Msk, EXECCTRL_WRAP_TOP_Pos, 31)
    /\ FieldIs(cfg.ShiftCtrl, SHIFTCTRL_PUSH_THRESH_Msk, SHIFTCTRL_PUSH_THRESH_Pos, 0)
    /\ FieldIs(cfg.ShiftCtrl, SHIFTCTRL_PULL_THRESH_Msk, SHIFTCTRL_PULL_THRESH_Pos, 0)

\* C10 as stated: the default configuration has clock divisor (1, 0), wrap
\* range (0, 31), input and output shift direction left (direction bit 0),
\* auto-push and auto-pull enabled, and both thresholds 32 (stored 0).
C10_DefaultAsClaimed ==
    cfgRet.op = "DefaultStateMachineConfig"
    => /\ DefaultDivWrapThresholds
       /\ cfg.ShiftCtrl \cap SHIFTCTRL_IN_SHIFTDIR_Msk = {}
       /\ cfg.ShiftCtrl \cap SHIFTCTRL_OUT_SHIFTDIR_Msk = {}
       /\ SHIFTCTRL_AUTOPUSH_Msk \subseteq cfg.ShiftCtrl
       /\ SHIFTCTRL_AUTOPULL_Msk \subseteq cfg.ShiftCtrl

\* C10 as amended: the default configuration has clock divisor (1, 0), wrap
\* range (0, 31), input and output shift direction right (direction bit 1),
\* auto-push and auto-pull disabled, and both thresholds 32 (stored 0).
C10_Default ==
    cfgRet.op = "DefaultStateMachineConfig"
    => /\ DefaultDivWrapThresholds
       /\ SHIFTCTRL_IN_SHIFTDIR_Msk \subseteq cfg.ShiftCtrl
       /\ SHIFTCTRL_OUT_SHIFTDIR_Msk \subseteq cfg.ShiftCtrl
       /\ cfg.ShiftCtrl \cap SHIFTCTRL_AUTOPUSH_Msk = {}
       /\ cfg.ShiftCtrl \cap SHIFTCTRL_AUTOPULL_Msk = {}

C10_Witness ==
    /\ cfgRet.op = "DefaultStateMachineConfig"
    /\ cfgRet.before = SetOutShift(ZeroConfig, FALSE, TRUE, 8)
    /\ cfg = DefaultStateMachineConfig

(***************************************************************************)
(* Properties of the state machine controller.                             *)
(***************************************************************************)
\* The register writes of Init(initialPC, cfg) on index, in the order
\* stated: run bit cleared, four configuration words, two FIFO toggles, the
\* FIFO flags of index, force-restart, clock divider restart, jump.
InitOrder(index, initialPC, c, ctrl0) ==
    <<Write("CTRL", -1, "RW", ctrl0 \ {index}),
      Write("SM_CLKDIV", index, "RW", c.ClkDiv),
      Write("SM_EXECCTRL", index, "RW", c.ExecCtrl),
      Write("SM_SHIFTCTRL", index, "RW", c.ShiftCtrl),
      Write("SM_PINCTRL", index, "RW", c.PinCtrl),
      Write("SM_SHIFTCTRL", index, "XOR", {SHIFTCTRL_FJOIN_RX_Pos}),
      Write("SM_SHIFTCTRL", index, "XOR", {SHIFTCTRL_FJOIN_RX_Pos}),
      Write("FDEBUG", -1, "RW",
            {FDEBUG_RXSTALL_Pos + index, FDEBUG_RXUNDER_Pos + index,
             FDEBUG_TXOVER_Pos + index, FDEBUG_TXSTALL_Pos + index}),
      Write("CTRL", -1, "RW", (ctrl0 \ {index}) \cup {CTRL_SM_RESTART_Pos + index}),
      Write("CTRL", -1, "RW",
            (ctrl0 \ {index}) \cup {CTRL_CLKDIV_RESTART_Pos + index}),
      Write("SM_INSTR", index, "RW", initialPC % 32)>>

\* How many writes Init has made when its next step is step.
WritesBefore(step) ==
    CASE step = "SetConfig" -> 1
      [] step = "ClearFIFOs" -> 5
      [] step = "ClearFIFOs2" -> 6
      [] step = "FDEBUG" -> 7
      [] step = "Restart" -> 8
      [] step = "ClkDivRestart" -> 9
      [] step = "Exec" -> 10

\* Init has just returned; smPc still holds its arguments.
InitReturned == smPc.op = "idle" /\ smRet.op = "Init"

\* C9: Init on index i, from a running or a halted state machine, clears run
\* bit i, writes the four configuration words (the default configuration
\* for a nil cfg), toggles the FIFO bits twice, clears the FIFO error flags
\* of i, force-restarts, restarts the clock divider and executes a jump to
\* initialPC, in this order; run bit i is never set during the sequence, the
\* state machine is halted when Init returns, and a run bit is only ever
\* set by SetEnabled(true).
C9_InitOrder ==
    LET i == smPc.index
        order == InitOrder(i, smPc.initialPC,
                           IF smPc.cfg.nil THEN DefaultStateMachineConfig
                           ELSE smPc.cfg.value, smPc.ctrl0)
    IN  /\ smPc.op = "Init"
             => /\ Len(smLog) = WritesBefore(smPc.step)
                /\ smLog = SubSeq(order, 1, Len(smLog))
                /\ i \notin CTRL
        /\ InitReturned
             => /\ smLog = order
                /\ i \notin CTRL
                /\ SM[i].CLKDIV = order[2].value
                /\ SM[i].EXECCTRL = order[3].value
                /\ SM[i].SHIFTCTRL = order[4].value
                /\ SM[i].PINCTRL = order[5].value
                /\ SM[i].INSTR = order[11].value
                /\ FDEBUG \cap order[8].value = {}
        /\ \A j \in SMIndexes :
               (j \in CTRL /\ j \notin smRet.ctrlBefore)
               => smRet.op = "SetEnabled" /\ smRet.index = j /\ smRet.enabled

\* Init with a nil cfg and initialPC 30 has returned on state machine 1,
\* which was running: it is halted and holds the default configuration.
C9_Witness ==
    /\ InitReturned
    /\ smPc.index = 1
    /\ smPc.ctrl0 = {1}
    /\ smPc.cfg.nil
    /\ CTRL = {}
    /\ SM[1].SHIFTCTRL = DefaultStateMachineConfig.ShiftCtrl
    /\ SM[1].INSTR = 30
    /\ Len(smLog) = 11

\* C11: SetEnabled on index i, run to its end without interruption, sets or
\* clears run bit i of CTRL and leaves every other bit of the register as it
\* was: the one value it writes is the value read with bit i replaced.
C11_EnableOwnsRunBit ==
    smRet.op = "SetEnabled" =>
        LET i == smRet.index
            bit == IF smRet.enabled THEN {i} ELSE {}
        IN  /\ i \in 0 .. 3
            /\ CTRL \ {i} = smRet.ctrlBefore \ {i}
            /\ i \in CTRL <=> smRet.enabled
            /\ smLog = <<Write("CTRL", -1, "RW", (smRet.ctrlBefore \ {i}) \cup bit)>>

\* SetEnabled(true) on index 1 has returned while state machine 0 was
\* running: both run.
C11_Witness ==
    /\ smRet.op = "SetEnabled"
    /\ smRet.index = 1
    /\ smRet.enabled
    /\ smRet.ctrlBefore = {0}
    /\ CTRL = {0, 1}

(***************************************************************************)
(* Properties of the handles.                                              *)
(***************************************************************************)
\* C15: PIO.StateMachine returns a handle for each index 0..3 and panics for
\* every index of 4 or more, which ends the program; every method call and
\* every register write is made with an index in 0..3.
C15_HandlesInRange ==
    /\ smRet.op = "StateMachine" =>
           /\ smRet.panic <=> smRet.index \notin 0 .. 3
           /\ smRet.panic <=> smPc.op = "panicked"
    /\ smPc.op = "panicked" => smRet.op = "StateMachine"
    /\ smRet.op \notin {"none", "StateMachine"} => smRet.index \in 0 .. 3
    /\ \A k \in 1 .. Len(smLog) : smLog[k].sm \in {-1} \cup (0 .. 3)

\* After a call on a handle, a request for index 4 has panicked.
C15_Witness ==
    /\ smRet.op = "StateMachine"
    /\ smRet.index = 4
    /\ smRet.panic
    /\ smPc.op = "panicked"
    /\ smCalls > 0

(***************************************************************************)
(* Properties of the methods that write a state machine's register block.  *)
(***************************************************************************)
\* The call that has just returned is a whole call of op.
Returned(op) == smRet.op = op /\ smPc.op = "idle"

\* This step is a whole call of op.
CallOf(op) == smCalls' = smCalls + 1 /\ smRet'.op = op

\* Number of chunks of at most 5 pins that count pins make.
Chunks(count) == (count + 4) \div 5

\* C12: SetConsecutivePinDirs(startPin, count, asOutput), startPin in 0..31
\* and count >= 1, issues ceil(count/5) set-pindirs instructions; chunk k is
\* issued with the pin control register holding base (startPin + 5k) mod 32
\* and count 5, but for the last chunk, whose count is what remains, between
\* 1 and 5; the chunks cover the pins startPin .. startPin+count-1 modulo 32
\* in order.
C12_PinDirChunks ==
    Returned("SetConsecutivePinDirs") =>
        LET i == smRet.index
            startPin == smRet.args[1]
            count == smRet.args[2]
            n == Chunks(count)
            size(k) == IF k < n - 1 THEN 5 ELSE count - 5 * (n - 1)
            pins(k) == [t \in 1 .. size(k) |-> (startPin + 5 * k + t - 1) % 32]
            written(k) == smLog[2 * k + 1]
            issued(k) == smLog[2 * k + 2]
        IN  /\ Len(smLog) = 2 * n + 1
            /\ size(n - 1) \in 1 .. 5
            /\ \A k \in 0 .. n - 1 :
                   /\ written(k).reg = "SM_PINCTRL" /\ written(k).sm = i
                   /\ FieldIs(written(k).value, PINCTRL_SET_BASE_Msk,
                              PINCTRL_SET_BASE_Pos, pins(k)[1])
                   /\ FieldIs(written(k).value, PINCTRL_SET_COUNT_Msk,
                              PINCTRL_SET_COUNT_Pos, Len(pins(k)))
                   /\ issued(k) = Write("SM_INSTR", i, "RW",
                                       EncodeSet(SrcDestPinDirs,
                                                 IF smRet.args[3] THEN 31 ELSE 0))
            /\ \A t \in 0 .. count - 1 :
                   pins(t \div 5)[(t % 5) + 1] = (startPin + t) % 32

\* SetConsecutivePinDirs(30, 7, true) has returned: two instructions, issued
\* with base 30 and count 5, then base 3 and count 2.
C12_Witness ==
    /\ Returned("SetConsecutivePinDirs")
    /\ smRet.index = 1
    /\ smCalls = 1
    /\ usedSpaceMask = {}
    /\ smRet.args = <<30, 7, TRUE>>
    /\ Len(smLog) = 5
    /\ smLog[1].value = {5 + 1, 5 + 2, 5 + 3, 5 + 4, 26, 28}
    /\ smLog[3].value = {5, 5 + 1, 27}

\* C13: SetConsecutivePinDirs leaves the pin control register of its state
\* machine as it found it, whatever it held, and writes no clock divider,
\* exec control or shift control register of any state machine.
C13_PinCtrlRestored ==
    [][CallOf("SetConsecutivePinDirs") =>
          /\ SM'[smRet'.index].PINCTRL = SM[smRet'.index].PINCTRL
          /\ \A j \in DOMAIN SM :
                 /\ SM'[j].CLKDIV = SM[j].CLKDIV
                 /\ SM'[j].EXECCTRL = SM[j].EXECCTRL
                 /\ SM'[j].SHIFTCTRL = SM[j].SHIFTCTRL
          /\ \A k \in 1 .. Len(smLog') :
                 smLog'[k].reg \in {"SM_PINCTRL", "SM_INSTR"}
          /\ smLog'[Len(smLog')] =
                 Write("SM_PINCTRL", smRet'.index, "RW", SM[smRet'.index].PINCTRL)]_vars

\* SetConsecutivePinDirs has returned on a state machine that holds the pin
\* control word of the generated configuration, which differs from every
\* chunk's value.
C13_Witness ==
    /\ Returned("SetConsecutivePinDirs")
    /\ smRet.index = 3
    /\ smRet.args = <<31, 11, FALSE>>
    /\ usedSpaceMask = {}
    /\ SM[smRet.index].PINCTRL = st7789_parallelProgramDefaultConfig(30).PinCtrl
    /\ smLog[Len(smLog) - 2].value # SM[smRet.index].PINCTRL
    /\ smLog[Len(smLog)].value = SM[smRet.index].PINCTRL

\* C14: ClearFIFOs makes two writes of the FIFO join bit through the XOR
\* alias of the shift control register: the register ends with the value it
\* had, and after the first write it differs from it in exactly that bit.
\* The two steps of ClearFIFOs inside Init each toggle exactly that bit.
C14_ClearFIFOsCancels ==
    [][/\ CallOf("ClearFIFOs") =>
            LET i == smRet'.index
                toggle == Write("SM_SHIFTCTRL", i, "XOR", {SHIFTCTRL_FJOIN_RX_Pos})
            IN  /\ smLog' = <<toggle, toggle>>
                /\ SM'[i].SHIFTCTRL = SM[i].SHIFTCTRL
                /\ Differ(Store(SM, smLog'[1])[i].SHIFTCTRL, SM[i].SHIFTCTRL)
                       = {SHIFTCTRL_FJOIN_RX_Pos}
                /\ Store(Store(SM, smLog'[1]), smLog'[2]) = SM'
       /\ (smPc.op = "Init" /\ smPc.step \in {"ClearFIFOs", "ClearFIFOs2"}
              /\ smPc' # smPc) =>
              Differ(SM'[smPc.index].SHIFTCTRL, SM[smPc.index].SHIFTCTRL)
                  = {SHIFTCTRL_FJOIN_RX_Pos}]_vars

\* ClearFIFOs has returned on a state machine whose receive FIFO is joined:
\* the join bit is set again.
C14_Witness ==
    /\ Returned("ClearFIFOs")
    /\ smRet.index = 1
    /\ usedSpaceMask = {}
    /\ Len(smLog) = 2
    /\ SM[smRet.index].SHIFTCTRL
           = SetFIFOJoin(DefaultStateMachineConfig, FIFO_JOIN_RX).ShiftCtrl

\* The FIFO error flags of state machine j in FDEBUG.
FifoFlags(j) ==
    {FDEBUG_RXSTALL_Pos + j, FDEBUG_RXUNDER_Pos + j, FDEBUG_TXOVER_Pos + j,
     FDEBUG_TXSTALL_Pos + j}

\* The methods of C16.
MethodsOnOneIndex ==
    {"Init", "SetConfig", "Restart", "ClkDivRestart", "Exec", "ClearFIFOs",
     "SetConsecutivePinDirs"}

\* C16: a step of Init, SetConfig, Restart, ClkDivRestart, Exec, ClearFIFOs
\* or SetConsecutivePinDirs on index i leaves the registers, the run bit and
\* the FIFO error flags of every other index as they were, clears no flag
\* but the four of index i, and leaves the occupancy mask and the
\* instruction memory untouched.
C16_OnlyIndexI ==
    [][((smCalls' # smCalls \/ smPc' # smPc)
           /\ smRet'.op \in MethodsOnOneIndex) =>
          LET i == smRet'.index
          IN  /\ \A j \in (0 .. 3) \ {i} :
                     /\ SM'[j] = SM[j]
                     /\ j \in CTRL' <=> j \in CTRL
                     /\ FDEBUG' \cap FifoFlags(j) = FDEBUG \cap FifoFlags(j)
              /\ \A k \in 1 .. Len(smLog') : smLog'[k].sm \in {-1, i}
              /\ FDEBUG \ FDEBUG' \subseteq FifoFlags(i)
              /\ usedSpaceMask' = usedSpaceMask
              /\ INSTR_MEM' = INSTR_MEM]_vars

\* Init has returned on state machine 3 with the program loaded and state
\* machine 1 holding the generated configuration: 3 holds the default, 1
\* still holds its own.
C16_Witness ==
    /\ InitReturned
    /\ smPc.index = 3
    /\ smPc.cfg.nil
    /\ usedSpaceMask = {30, 31}
    /\ SM[1].EXECCTRL = st7789_parallelProgramDefaultConfig(30).ExecCtrl
    /\ SM[3].EXECCTRL = DefaultStateMachineConfig.ExecCtrl
    /\ SM[1].EXECCTRL # SM[3].EXECCTRL

(***************************************************************************)
(* Further properties of the allocator.                                    *)
(***************************************************************************)
\* C17: every word a successful AddProgram or AddProgramAtOffset writes goes
\* to a slot in 0..31: the slots of a placement are offset, offset+1, ...
\* without wrapping, and none is 32 or more.
C17_WritesInsideMemory ==
    /\ \A k \in 1 .. Len(loaded) :
           /\ loaded[k].slots \subseteq 0 .. (WORD_BITS - 1)
           /\ loaded[k].slots =
                  {loaded[k].offset + i :
                       i \in 0 .. (Len(loaded[k].program.Instructions) - 1)}
    /\ DOMAIN INSTR_MEM \subseteq 0 .. (WORD_BITS - 1)

\* C18: a jump placed at an offset in 0..31 is stored with every bit outside
\* its 5-bit address field as in the program's word, also when address plus
\* offset is 32 or more, and the stored word is still a jump.
C18_RelocationKeepsOtherBits ==
    (Placed /\ ret.result \in 0 .. (WORD_BITS - 1)) =>
        \A i \in 0 .. (Len(ret.program.Instructions) - 1) :
            LET instr == ret.program.Instructions[i + 1]
                stored == INSTR_MEM[ToUint8(ret.result + i)]
            IN  IsJmp(instr) =>
                    /\ stored - JmpAddr(stored) = instr - JmpAddr(instr)
                    /\ IsJmp(stored)

(***************************************************************************)
(* Properties of the control register under preemption.                    *)
(***************************************************************************)
\* C19: when SetEnabled, Restart or ClkDivRestart on index i is preempted
\* between its read and its write of CTRL by one whole SetEnabled on another
\* index j, then after its write run bit j has the value the preempting call
\* gave it and, for SetEnabled, run bit i the value the preempted call asked.
C19_NoLostUpdate ==
    (irqRet.op # "none" /\ irqRet.preemptions = 1 /\ irqRet.by # irqRet.index) =>
        /\ irqRet.by \in irqRet.ctrlAfter <=> irqRet.byEnabled
        /\ irqRet.op = "SetEnabled" =>
               (irqRet.index \in irqRet.ctrlAfter <=> irqRet.enabled)

====
